---- MODULE Spec2Model ----
(***************************************************************************)
(* Pair screening of src/main.py: evaluate_pairs (alignment, cointegration *)
(* test, hedge ratio / spread, z-score, with per-pair failure containment) *)
(* and the selection in main (threshold filter, top-N fallback, ranking by *)
(* absolute z-score, report, notification).                                *)
(*                                                                         *)
(* Numbers.  Floats are records [nan, v]: v is an integer in a fixed unit  *)
(* (p-values in 1/100, z-scores in 1/10), nan marks IEEE not-a-number, so  *)
(* that the comparisons of the code (<=, == 0, math.isnan) keep their      *)
(* behaviour on NaN.                                                       *)
(*                                                                         *)
(* Library calls.  coint, OLS and the pandas statistics are not computed:  *)
(* a price series is abstracted to its date index and a shape, and the     *)
(* library answers are tables over the shapes of the two operands, which   *)
(* cover every outcome the code handles (exception, NaN, zero or NaN       *)
(* deviation, a valid result).                                             *)
(***************************************************************************)
EXTENDS Integers, Sequences, FiniteSets, TLC

VARIABLES pc, data, df_pairs, raised, df_sig, fallback, df_final, report, notified

vars == <<pc, data, df_pairs, raised, df_sig, fallback, df_final, report, notified>>

\* ---- bounds of the model ----
\* Instruments fetch_prices may return in a run of main.
MaxSyms == 7
\* Instruments in a universe handed to evaluate_pairs directly.
MaxEvalSyms == 3

\* ---- configuration (src/main.py 14-17, 170) ----
PAST_DAYS == 90
MIN_OVERLAP_DAYS == 60
\* 0.05, in hundredths
PVALUE_THRESHOLD == 5
TOP_N == 20
\* the literal of `if len(data) < 5`
MIN_INSTRUMENTS == 5

\* ---- floats ----
Num(x) == [nan |-> FALSE, v |-> x]
NaN == [nan |-> TRUE, v |-> 0]
isnan(x) == x.nan
\* x <= y, false when either side is NaN
FLe(x, y) == ~x.nan /\ ~y.nan /\ x.v <= y.v
\* x == 0, false on NaN
FIsZero(x) == ~x.nan /\ x.v = 0
Abs(i) == IF i < 0 THEN -i ELSE i

\* ---- price series ----
Dates == 1..PAST_DAYS
Full == Dates
Late == (PAST_DAYS - MIN_OVERLAP_DAYS + 1)..PAST_DAYS
Gap == Dates \ {PAST_DAYS \div 2}
\* shape 0: a constant series; 1, 2: two kinds of varying series
Shapes == 0..2
Series(i, s) == [idx |-> i, shape |-> s]

\* ---- library answers (statsmodels, pandas), by the shapes of the operands ----
Ok(p) == [raises |-> FALSE, pvalue |-> Num(p)]
\* coint(a, b)[1]: an exception, or a p-value that may be NaN
coint(a, b) ==
  CASE a.shape = 0 /\ b.shape = 0 -> [raises |-> TRUE, pvalue |-> NaN]
    [] a.shape = 0 /\ b.shape = 1 -> [raises |-> FALSE, pvalue |-> NaN]
    [] a.shape = 0 /\ b.shape = 2 -> Ok(50)
    [] a.shape = 1 /\ b.shape = 0 -> Ok(50)
    [] a.shape = 2 /\ b.shape = 0 -> Ok(30)
    [] a.shape = 1 /\ b.shape = 1 -> Ok(1)
    [] a.shape = 1 /\ b.shape = 2 -> Ok(PVALUE_THRESHOLD)
    [] a.shape = 2 /\ b.shape = 1 -> Ok(30)
    [] OTHER -> Ok(50)

\* OLS(a, add_constant(b)).fit().params[1]: an exception on a design the
\* fit rejects, else the slope
OLS_fit(a, b) ==
  CASE a.shape = 1 /\ b.shape = 0 -> [raises |-> TRUE, beta |-> 0]
    [] a.shape = 0 -> [raises |-> FALSE, beta |-> 0]
    [] a.shape = b.shape -> [raises |-> FALSE, beta |-> 1]
    [] OTHER -> [raises |-> FALSE, beta |-> 2]

\* what pandas reports of the series a - beta * b: len, mean(), std(), iloc[-1]
SpreadStats(a, b, beta) ==
  LET n == Cardinality(a.idx) IN
  CASE a.shape = 0 -> [n |-> n, mean |-> 100, std |-> Num(0), last |-> 100]
    [] b.shape = 0 -> [n |-> n, mean |-> 100, std |-> NaN, last |-> 100]
    [] a.shape = 1 /\ b.shape = 1 -> [n |-> n, mean |-> 100, std |-> Num(5), last |-> 90]
    [] a.shape = 1 /\ b.shape = 2 -> [n |-> n, mean |-> 100, std |-> Num(5), last |-> 106]
    [] a.shape = 2 /\ b.shape = 1 -> [n |-> n, mean |-> 100, std |-> Num(5), last |-> 110]
    [] OTHER -> [n |-> n, mean |-> 100, std |-> Num(10), last |-> 95]

\* ---- statistics of main.py ----
NoAlign == [none |-> TRUE, a |-> Series({}, 0), b |-> Series({}, 0)]

\* align_series without the length check
align_series_nocheck(s1, s2) ==
  LET common == s1.idx \cap s2.idx IN
  [none |-> FALSE, a |-> Series(common, s1.shape), b |-> Series(common, s2.shape)]

\* inner join on the date index, then the length check
align_series(s1, s2) ==
  LET common == s1.idx \cap s2.idx IN
  IF Cardinality(common) < MIN_OVERLAP_DAYS
  THEN NoAlign
  ELSE [none |-> FALSE, a |-> Series(common, s1.shape), b |-> Series(common, s2.shape)]

NoSpread == [n |-> 0, mean |-> 0, std |-> NaN, last |-> 0]

hedge_ratio_and_spread(a, b) ==
  LET fit == OLS_fit(a, b) IN
  IF fit.raises
  THEN [raises |-> TRUE, beta |-> 0, spread |-> NoSpread]
  ELSE [raises |-> FALSE, beta |-> fit.beta, spread |-> SpreadStats(a, b, fit.beta)]

None == [none |-> TRUE, v |-> 0]

\* compute_zscore guarding only against sigma == 0
compute_zscore_zero_only(spread) ==
  IF FIsZero(spread.std)
  THEN None
  ELSE [none |-> FALSE,
        v |-> IF isnan(spread.std) THEN 0
              ELSE (10 * (spread.last - spread.mean)) \div spread.std.v]

\* (spread.iloc[-1] - mu) / sigma, in tenths
compute_zscore(spread) ==
  IF FIsZero(spread.std) \/ isnan(spread.std)
  THEN None
  ELSE [none |-> FALSE, v |-> (10 * (spread.last - spread.mean)) \div spread.std.v]

\* ---- evaluate_pairs ----
NoRow == [sym_a |-> 0, sym_b |-> 0, pvalue |-> NaN, beta |-> 0, zscore |-> 0,
          spread_mean |-> 0, spread_std |-> NaN, n |-> 0]
Step(k, r) == [kind |-> k, row |-> r]

\* the body of the try block for one aligned pair: "raise" when a library
\* call throws, "continue" on a skip, "append" with the row otherwise
try_body(s1, s2, a, b) ==
  LET c == coint(a, b) IN
  IF c.raises THEN Step("raise", NoRow)
  ELSE IF isnan(c.pvalue) THEN Step("continue", NoRow)
  ELSE LET h == hedge_ratio_and_spread(a, b) IN
    IF h.raises THEN Step("raise", NoRow)
    ELSE LET z == compute_zscore(h.spread) IN
      IF z.none THEN Step("continue", NoRow)
      ELSE Step("append",
                [sym_a |-> s1, sym_b |-> s2, pvalue |-> c.pvalue, beta |-> h.beta,
                 zscore |-> z.v, spread_mean |-> h.spread.mean,
                 spread_std |-> h.spread.std, n |-> h.spread.n])

\* the try block without its except clause
try_uncaught(s1, s2, a, b) == try_body(s1, s2, a, b)

\* try: ... except Exception: continue
try_except(s1, s2, a, b) ==
  LET t == try_body(s1, s2, a, b) IN
  IF t.kind = "raise" THEN Step("continue", NoRow) ELSE t

\* data[sym] of the mapping, kept as the sequence of its items in key order
Lookup(d, sym) == d[CHOOSE i \in 1..Len(d) : d[i].sym = sym].series

\* one iteration of the for loop
loop_body(d, s1, s2) ==
  LET al == align_series(Lookup(d, s1), Lookup(d, s2)) IN
  IF al.none THEN Step("continue", NoRow)
  ELSE try_except(s1, s2, al.a, al.b)

\* list(data.keys())
keys(d) == [i \in 1..Len(d) |-> d[i].sym]

RECURSIVE IndexPairs(_, _, _)
IndexPairs(i, j, n) ==
  IF i >= n THEN <<>>
  ELSE IF j > n THEN IndexPairs(i + 1, i + 2, n)
  ELSE <<(<<i, j>>)>> \o IndexPairs(i, j + 1, n)

\* the k-th smallest symbol, for k in 1..Len(symbols)
sorted(symbols) ==
  [k \in 1..Len(symbols) |->
    symbols[CHOOSE i \in 1..Len(symbols) :
      Cardinality({j \in 1..Len(symbols) : symbols[j] < symbols[i]}) = k - 1]]

\* combinations over the sorted symbol list
combinations_sorted(symbols) ==
  LET ip == IndexPairs(1, 2, Len(symbols))
      ss == sorted(symbols)
  IN [k \in 1..Len(ip) |-> <<ss[ip[k][1]], ss[ip[k][2]]>>]

\* every ordered pair of distinct symbols: itertools.permutations(symbols, 2)
combinations_ordered(symbols) ==
  LET ip == IndexPairs(1, 2, Len(symbols))
      fwd == [k \in 1..Len(ip) |-> <<symbols[ip[k][1]], symbols[ip[k][2]]>>]
      bwd == [k \in 1..Len(ip) |-> <<symbols[ip[k][2]], symbols[ip[k][1]]>>]
  IN fwd \o bwd

\* itertools.combinations(symbols, 2)
combinations(symbols) ==
  LET ip == IndexPairs(1, 2, Len(symbols)) IN
  [k \in 1..Len(ip) |-> <<symbols[ip[k][1]], symbols[ip[k][2]]>>]

RECURSIVE Loop(_, _, _, _)
Loop(d, pairs, k, results) ==
  IF k > Len(pairs) THEN [raised |-> FALSE, results |-> results]
  ELSE LET st == loop_body(d, pairs[k][1], pairs[k][2]) IN
    IF st.kind = "raise" THEN [raised |-> TRUE, results |-> <<>>]
    ELSE Loop(d, pairs, k + 1,
              IF st.kind = "append" THEN Append(results, st.row) ELSE results)

\* the data frame of the emitted rows, or the exception that left the loop
evaluate_pairs(d) == Loop(d, combinations(keys(d)), 1, <<>>)

\* ---- data frame operations used by main ----
Min(x, y) == IF x <= y THEN x ELSE y
head(df, n) == SubSeq(df, 1, Min(n, Len(df)))

\* the relative order sort_values may give two rows of equal key: it is
\* called with the default kind="quicksort", which promises no stability
TiePolicies == {"keep", "reverse"}

\* df.sort_values(column, ascending=...) with the column's values in ks
\* (no key is NaN: the rows of evaluate_pairs hold numbers only)
sort_values(df, ks, ascending, tie) ==
  LET n == Len(df)
      Before(i, j) ==
        \/ ascending /\ ks[i] < ks[j]
        \/ ~ascending /\ ks[i] > ks[j]
        \/ ks[i] = ks[j] /\ (IF tie = "keep" THEN i < j ELSE i > j)
      rank(i) == 1 + Cardinality({j \in 1..n : Before(j, i)})
  IN [k \in 1..n |-> df[CHOOSE i \in 1..n : rank(i) = k]]

\* the filter with < in place of <=
filter_sig_strict(df) ==
  SelectSeq(df, LAMBDA r : ~isnan(r.pvalue) /\ r.pvalue.v < PVALUE_THRESHOLD)

\* df_pairs[df_pairs["pvalue"] <= PVALUE_THRESHOLD]
filter_sig(df) == SelectSeq(df, LAMBDA r : FLe(r.pvalue, Num(PVALUE_THRESHOLD)))

\* the fallback sorting by descending pvalue
fallback_pool_desc(df, tie) ==
  head(sort_values(df, [i \in 1..Len(df) |-> df[i].pvalue.v], FALSE, tie), TOP_N)

\* df_pairs.sort_values("pvalue").head(TOP_N)
fallback_pool(df, tie) ==
  head(sort_values(df, [i \in 1..Len(df) |-> df[i].pvalue.v], TRUE, tie), TOP_N)

\* df_sig["abs_z"] = df_sig["zscore"].abs()
add_abs_z(df) ==
  [i \in 1..Len(df) |->
    [sym_a |-> df[i].sym_a, sym_b |-> df[i].sym_b, pvalue |-> df[i].pvalue,
     beta |-> df[i].beta, zscore |-> df[i].zscore, spread_mean |-> df[i].spread_mean,
     spread_std |-> df[i].spread_std, n |-> df[i].n, abs_z |-> Abs(df[i].zscore)]]

\* the ranking by the signed z-score
rank_final_signed(df, tie) ==
  head(sort_values(df, [i \in 1..Len(df) |-> df[i].zscore], FALSE, tie), TOP_N)

\* df_sig.sort_values("abs_z", ascending=False).head(TOP_N)
rank_final(df, tie) ==
  head(sort_values(df, [i \in 1..Len(df) |-> df[i].abs_z], FALSE, tie), TOP_N)

\* the guard of main asking for two instruments only
too_few_two(d) == Len(d) < 2

\* len(data) < 5
too_few(d) == Len(d) < MIN_INSTRUMENTS

\* ---- universes ----
Item(s, ser) == [sym |-> s, series |-> ser]

\* what fetch_prices can return: up to MaxSyms instruments over the full window
MainUniverses ==
  UNION {{[i \in 1..n |-> Item(i, Series(Full, f[i]))] : f \in [1..n -> Shapes]} :
         n \in 0..MaxSyms}

EvalProfiles ==
  {Series(Full, 0), Series(Full, 1), Series(Full, 2), Series(Late, 1), Series(Gap, 2)}

Perms(n) == {p \in [1..n -> 1..n] : \A i, j \in 1..n : p[i] = p[j] => i = j}

\* mappings of up to MaxEvalSyms symbols, in every insertion order
EvalUniverses ==
  UNION {{[i \in 1..n |-> Item(p[i], f[i])] : p \in Perms(n), f \in [1..n -> EvalProfiles]} :
         n \in 0..MaxEvalSyms}

NoReport == [written |-> FALSE, rows |-> <<>>]

\* ---- main ----
Init ==
  /\ pc = "start"
  /\ data = <<>>
  /\ df_pairs = <<>>
  /\ raised = FALSE
  /\ df_sig = <<>>
  /\ fallback = FALSE
  /\ df_final = <<>>
  /\ report = NoReport
  /\ notified = FALSE

\* load_symbols and fetch_prices: the market data of the run
LoadAndFetch ==
  /\ pc = "start"
  /\ \E d \in MainUniverses : data' = d
  /\ pc' = "fetched"
  /\ UNCHANGED <<df_pairs, raised, df_sig, fallback, df_final, report, notified>>

TooFewData ==
  /\ pc = "fetched"
  /\ too_few(data)
  /\ pc' = "done"
  /\ UNCHANGED <<data, df_pairs, raised, df_sig, fallback, df_final, report, notified>>

Evaluate ==
  /\ pc = "fetched"
  /\ ~too_few(data)
  /\ LET r == evaluate_pairs(data) IN
       /\ df_pairs' = r.results
       /\ raised' = r.raised
       /\ pc' = IF r.raised THEN "crashed" ELSE "evaluated"
  /\ UNCHANGED <<data, df_sig, fallback, df_final, report, notified>>

NoPairs ==
  /\ pc = "evaluated"
  /\ df_pairs = <<>>
  /\ pc' = "done"
  /\ UNCHANGED <<data, df_pairs, raised, df_sig, fallback, df_final, report, notified>>

Filter ==
  /\ pc = "evaluated"
  /\ df_pairs # <<>>
  /\ df_sig' = filter_sig(df_pairs)
  /\ pc' = "filtered"
  /\ UNCHANGED <<data, df_pairs, raised, fallback, df_final, report, notified>>

Fallback ==
  /\ pc = "filtered"
  /\ df_sig = <<>>
  /\ \E tie \in TiePolicies : df_sig' = fallback_pool(df_pairs, tie)
  /\ fallback' = TRUE
  /\ pc' = "pooled"
  /\ UNCHANGED <<data, df_pairs, raised, df_final, report, notified>>

KeepFiltered ==
  /\ pc = "filtered"
  /\ df_sig # <<>>
  /\ pc' = "pooled"
  /\ UNCHANGED <<data, df_pairs, raised, df_sig, fallback, df_final, report, notified>>

Rank ==
  /\ pc = "pooled"
  /\ df_sig' = add_abs_z(df_sig)
  /\ \E tie \in TiePolicies : df_final' = rank_final(df_sig', tie)
  /\ pc' = "ranked"
  /\ UNCHANGED <<data, df_pairs, raised, fallback, report, notified>>

\* generate_markdown_report
Report ==
  /\ pc = "ranked"
  /\ report' = [written |-> TRUE, rows |-> df_final]
  /\ pc' = "reported"
  /\ UNCHANGED <<data, df_pairs, raised, df_sig, fallback, df_final, notified>>

\* send_telegram_message: the message goes out unless the bot is not
\* configured or the request fails
Notify ==
  /\ pc = "reported"
  /\ \E sent \in BOOLEAN : notified' = sent
  /\ pc' = "done"
  /\ UNCHANGED <<data, df_pairs, raised, df_sig, fallback, df_final, report>>

Next ==
  \/ LoadAndFetch
  \/ TooFewData
  \/ Evaluate
  \/ NoPairs
  \/ Filter
  \/ Fallback
  \/ KeepFiltered
  \/ Rank
  \/ Report
  \/ Notify

Spec == Init /\ [][Next]_vars

\* ---- evaluate_pairs on its own ----
EvalInit ==
  /\ pc = "eval_start"
  /\ data \in EvalUniverses
  /\ df_pairs = <<>>
  /\ raised = FALSE
  /\ df_sig = <<>>
  /\ fallback = FALSE
  /\ df_final = <<>>
  /\ report = NoReport
  /\ notified = FALSE

EvalCall ==
  /\ pc = "eval_start"
  /\ LET r == evaluate_pairs(data) IN
       /\ df_pairs' = r.results
       /\ raised' = r.raised
  /\ pc' = "eval_done"
  /\ UNCHANGED <<data, df_sig, fallback, df_final, report, notified>>

EvalNext == EvalCall

SpecEval == EvalInit /\ [][EvalNext]_vars

\* ---- properties ----
Range(sq) == {sq[i] : i \in 1..Len(sq)}
NoDup(sq) == \A i, j \in 1..Len(sq) : sq[i] = sq[j] => i = j
AnySignificant == \E i \in 1..Len(df_pairs) : df_pairs[i].pvalue.v <= PVALUE_THRESHOLD
\* the emission position of a row: its index in df_pairs
Emitted(r) ==
  CHOOSE i \in 1..Len(df_pairs) :
    df_pairs[i].sym_a = r.sym_a /\ df_pairs[i].sym_b = r.sym_b
HasRow(s1, s2) ==
  \E i \in 1..Len(df_pairs) : df_pairs[i].sym_a = s1 /\ df_pairs[i].sym_b = s2
\* the pairs of symbols at positions i < j of the mapping
KeyPairs ==
  {<<data[ij[1]].sym, data[ij[2]].sym>> :
     ij \in {q \in (1..Len(data)) \X (1..Len(data)) : q[1] < q[2]}}
KeyPos(sym) == CHOOSE i \in 1..Len(data) : data[i].sym = sym
Common(s1, s2) == Lookup(data, s1).idx \cap Lookup(data, s2).idx
Aligned(s1, s2) == Cardinality(Common(s1, s2)) >= MIN_OVERLAP_DAYS
OperandA(s1, s2) == Series(Common(s1, s2), Lookup(data, s1).shape)
OperandB(s1, s2) == Series(Common(s1, s2), Lookup(data, s2).shape)
CointRaises(s1, s2) == Aligned(s1, s2) /\ coint(OperandA(s1, s2), OperandB(s1, s2)).raises
CointNaN(s1, s2) ==
  /\ Aligned(s1, s2)
  /\ ~coint(OperandA(s1, s2), OperandB(s1, s2)).raises
  /\ isnan(coint(OperandA(s1, s2), OperandB(s1, s2)).pvalue)
CointValid(s1, s2) == Aligned(s1, s2) /\ ~CointRaises(s1, s2) /\ ~CointNaN(s1, s2)
FitRaises(s1, s2) ==
  CointValid(s1, s2) /\ OLS_fit(OperandA(s1, s2), OperandB(s1, s2)).raises
SpreadDegenerate(s1, s2) ==
  /\ CointValid(s1, s2)
  /\ ~FitRaises(s1, s2)
  /\ LET a == OperandA(s1, s2)
         b == OperandB(s1, s2)
         sd == SpreadStats(a, b, OLS_fit(a, b).beta).std
     IN isnan(sd) \/ sd.v = 0
AllStepsSucceed(s1, s2) ==
  CointValid(s1, s2) /\ ~FitRaises(s1, s2) /\ ~SpreadDegenerate(s1, s2)

\* C1: on the filter path (some result has pvalue <= PVALUE_THRESHOLD) the
\* candidate pool is exactly the set of results with pvalue <= PVALUE_THRESHOLD
\* and the fallback step is not taken.
C1_FilterPath ==
  (pc = "pooled" /\ AnySignificant) =>
    /\ ~fallback
    /\ NoDup(df_sig)
    /\ Range(df_sig) = {r \in Range(df_pairs) : r.pvalue.v <= PVALUE_THRESHOLD}

C1_Witness ==
  /\ pc = "pooled"
  /\ ~fallback
  /\ Len(df_sig) < Len(df_pairs)
  /\ \E r \in Range(df_sig) : r.pvalue.v = PVALUE_THRESHOLD
  /\ \E r \in Range(df_sig) : r.pvalue.v < PVALUE_THRESHOLD

\* C2: on the fallback path (results exist, none has pvalue <= PVALUE_THRESHOLD)
\* the pool is min(TOP_N, number of results) distinct results of the full set,
\* it is not empty, and every result left out has a pvalue >= every result kept.
C2_FallbackPath ==
  (pc = "pooled" /\ df_pairs # <<>> /\ ~AnySignificant) =>
    /\ fallback
    /\ df_sig # <<>>
    /\ NoDup(df_sig)
    /\ Len(df_sig) = Min(TOP_N, Len(df_pairs))
    /\ Range(df_sig) \subseteq Range(df_pairs)
    /\ \A kept \in Range(df_sig) : \A out \in Range(df_pairs) \ Range(df_sig) :
         out.pvalue.v >= kept.pvalue.v

C2_Witness ==
  /\ pc = "pooled"
  /\ fallback
  /\ Len(df_pairs) > TOP_N
  /\ Len(df_sig) = TOP_N
  /\ \E r, q \in Range(df_sig) : r.pvalue.v < q.pvalue.v

\* C3: the final shortlist has at most TOP_N rows, all of them rows of the
\* candidate pool, in order of non-increasing absolute z-score.
C3_FinalRanking ==
  pc \in {"ranked", "reported", "done"} =>
    /\ Len(df_final) <= TOP_N
    /\ Range(df_final) \subseteq Range(df_sig)
    /\ \A i \in 1..Len(df_final) - 1 :
         Abs(df_final[i].zscore) >= Abs(df_final[i + 1].zscore)

C3_Witness ==
  /\ pc = "ranked"
  /\ Len(df_sig) > TOP_N
  /\ Len(df_final) = TOP_N
  /\ \E i \in 1..Len(df_final) - 1 :
       /\ Abs(df_final[i].zscore) > Abs(df_final[i + 1].zscore)
       /\ df_final[i].zscore < df_final[i + 1].zscore

\* C4: evaluate_pairs never ends by an exception; a pair is in its output
\* exactly when all its steps (alignment, cointegration test, hedge ratio and
\* spread, z-score) succeed, whatever happened to the other pairs.
C4_Containment ==
  pc = "eval_done" =>
    /\ ~raised
    /\ \A pr \in KeyPairs : AllStepsSucceed(pr[1], pr[2]) <=> HasRow(pr[1], pr[2])

C4_Witness ==
  /\ pc = "eval_done"
  /\ \E pr, qr \in KeyPairs :
       /\ CointRaises(pr[1], pr[2]) \/ FitRaises(pr[1], pr[2])
       /\ HasRow(qr[1], qr[2])
       /\ \/ KeyPos(pr[1]) < KeyPos(qr[1])
          \/ pr[1] = qr[1] /\ KeyPos(pr[2]) < KeyPos(qr[2])

\* C5 as stated: the output is the one of the universe with its symbols in
\* sorted order, and in every row symbol_a sorts before symbol_b.
C5_SortedOrder ==
  pc = "eval_done" =>
    /\ df_pairs = evaluate_pairs(
         [k \in 1..Len(data) |-> data[KeyPos(sorted(keys(data))[k])]]).results
    /\ \A r \in Range(df_pairs) : r.sym_a < r.sym_b

\* C5 amended: the rows come in the order of the mapping's keys iterated with
\* i < j: in every row symbol_a is an earlier key than symbol_b, and the rows
\* are in increasing lexicographic order of the two key positions.
C5_KeyOrder ==
  pc = "eval_done" =>
    /\ \A r \in Range(df_pairs) : KeyPos(r.sym_a) < KeyPos(r.sym_b)
    /\ \A i, j \in 1..Len(df_pairs) : i < j =>
         \/ KeyPos(df_pairs[i].sym_a) < KeyPos(df_pairs[j].sym_a)
         \/ /\ df_pairs[i].sym_a = df_pairs[j].sym_a
            /\ KeyPos(df_pairs[i].sym_b) < KeyPos(df_pairs[j].sym_b)

C5_Witness ==
  /\ pc = "eval_done"
  /\ Len(df_pairs) >= 2
  /\ \E r \in Range(df_pairs) : r.sym_a > r.sym_b

\* C6 as stated: rows of equal sort key keep their emission order, in the
\* fallback sort by pvalue and in the final sort by absolute z-score, also
\* where the tie decides which row the TOP_N cut drops.
C6_StableTies ==
  /\ (pc = "pooled" /\ fallback) =>
       /\ \A i, j \in 1..Len(df_sig) :
            (i < j /\ df_sig[i].pvalue = df_sig[j].pvalue) =>
              Emitted(df_sig[i]) < Emitted(df_sig[j])
       /\ \A kept \in Range(df_sig) : \A out \in Range(df_pairs) \ Range(df_sig) :
            kept.pvalue = out.pvalue => Emitted(kept) < Emitted(out)
  /\ pc = "ranked" =>
       /\ \A i, j \in 1..Len(df_final) :
            (i < j /\ df_final[i].abs_z = df_final[j].abs_z) =>
              Emitted(df_final[i]) < Emitted(df_final[j])
       /\ \A kept \in Range(df_final) : \A out \in Range(df_sig) \ Range(df_final) :
            kept.abs_z = out.abs_z => Emitted(kept) < Emitted(out)

\* C7: in the output of evaluate_pairs the two symbols of a row differ, no
\* unordered pair of symbols has two rows, and there are at most C(n,2) rows.
C7_PairUniqueness ==
  pc = "eval_done" =>
    /\ \A r \in Range(df_pairs) : r.sym_a # r.sym_b
    /\ \A i, j \in 1..Len(df_pairs) :
         {df_pairs[i].sym_a, df_pairs[i].sym_b} = {df_pairs[j].sym_a, df_pairs[j].sym_b}
           => i = j
    /\ 2 * Len(df_pairs) <= Len(data) * (Len(data) - 1)

C7_Witness ==
  /\ pc = "eval_done"
  /\ Len(data) >= 3
  /\ 2 * Len(df_pairs) = Len(data) * (Len(data) - 1)

\* C8: the n of every row is the number of dates the two series share and is
\* at least MIN_OVERLAP_DAYS; a pair sharing fewer dates has no row.
C8_AlignedCount ==
  pc = "eval_done" =>
    /\ \A r \in Range(df_pairs) :
         /\ r.n = Cardinality(Common(r.sym_a, r.sym_b))
         /\ r.n >= MIN_OVERLAP_DAYS
    /\ \A pr \in KeyPairs :
         Cardinality(Common(pr[1], pr[2])) < MIN_OVERLAP_DAYS =>
           ~HasRow(pr[1], pr[2]) /\ ~HasRow(pr[2], pr[1])

C8_Witness ==
  /\ pc = "eval_done"
  /\ \E r \in Range(df_pairs) : r.n = MIN_OVERLAP_DAYS
  /\ \E pr \in KeyPairs :
       Cardinality(Common(pr[1], pr[2])) = MIN_OVERLAP_DAYS - 1

\* C9: every row has a pvalue that is not NaN and a spread_std above 0; a pair
\* whose test returns NaN or whose spread has a zero or NaN deviation has no row.
C9_ValidRecords ==
  pc = "eval_done" =>
    /\ \A r \in Range(df_pairs) :
         /\ ~isnan(r.pvalue)
         /\ ~isnan(r.spread_std)
         /\ r.spread_std.v > 0
    /\ \A pr \in KeyPairs :
         (CointNaN(pr[1], pr[2]) \/ SpreadDegenerate(pr[1], pr[2])) =>
           ~HasRow(pr[1], pr[2])

C9_Witness ==
  /\ pc = "eval_done"
  /\ df_pairs # <<>>
  /\ \E pr \in KeyPairs : CointNaN(pr[1], pr[2])
  /\ \E pr \in KeyPairs : SpreadDegenerate(pr[1], pr[2])

\* C10: with data for fewer than 5 instruments main returns before evaluating:
\* nothing is selected, written or sent; with no result of evaluate_pairs no
\* report is written and nothing is sent; a notification is sent only after a
\* report has been written.
C10_RunGuards ==
  /\ Len(data) < MIN_INSTRUMENTS =>
       /\ pc \in {"start", "fetched", "done"}
       /\ df_pairs = <<>> /\ df_sig = <<>> /\ df_final = <<>>
       /\ ~report.written /\ ~notified
  /\ (pc = "done" /\ df_pairs = <<>>) => ~report.written /\ ~notified
  /\ notified => report.written

C10_Witness ==
  /\ pc = "done"
  /\ Len(data) = MIN_INSTRUMENTS - 1
  /\ \E i, j \in 1..Len(data) :
       i < j /\ AllStepsSucceed(data[i].sym, data[j].sym)

====
